---- MODULE Spec2Model ----
(***************************************************************************)
(* A state-machine model of the ResizeDetector component                   *)
(* (src/src/components/ResizeDetector.js): element resolution, the         *)
(* observation adapter, the resize handler with its frame-aligned          *)
(* coalescing step and optional debounce/throttle stage, and the render    *)
(* dispatcher.                                                             *)
(***************************************************************************)
EXTENDS Integers, Sequences, FiniteSets, TLC

(***************************************************************************)
(* Bounds of the model.                                                    *)
(***************************************************************************)
\* measured widths and heights range over 0..MaxDim
MaxDim == 1
\* a native callback delivers 1..MaxBatch entries
MaxBatch == 2

(***************************************************************************)
(* Values.                                                                 *)
(***************************************************************************)
\* `undefined` as a width or height (state initialiser, missing contentRect)
U == -1
\* null / undefined where a node or a handler is expected (both are falsy and
\* the code only ever tests them for truthiness)
Null == "null"
\* a truthy value that is not a DOM element (isDOMElement is false for it)
NotEl == "notElement"

Dims == 0..MaxDim
Size == [width : Dims \cup {U}, height : Dims \cup {U}]
SizeOf(w, h) == [width |-> w, height |-> h]
UndefSize == SizeOf(U, U)

\* An observation entry.  hasRect = FALSE stands for an entry that is falsy
\* or carries no contentRect; the handler reads `{}` from it.
Entry == [hasRect : {TRUE}, width : Dims, height : Dims]
           \cup {[hasRect |-> FALSE, width |-> U, height |-> U]}
RectEntry(w, h) == [hasRect |-> TRUE, width |-> w, height |-> h]
Batches == UNION {[1..n -> Entry] : n \in 1..MaxBatch}

\* DOM nodes of the page
SelfNode == "self"
ParentNode == "parent"
ExtNodes == {"a", "b"}
Nodes == ExtNodes \cup {SelfNode, ParentNode}

\* selectors a caller may pass, and the empty value of the prop
NoSel == "noSelector"
Selectors == {"#a", "#missing"}

ChildKinds == {"null", "function", "element", "array", "text"}
ChildItems == {<<>>, <<"element">>, <<"element", "null">>}
Children == [kind : ChildKinds \ {"array"}, items : {<<>>}]
              \cup [kind : {"array"}, items : ChildItems]
ChildrenOf(k) == [kind |-> k, items |-> <<>>]

RefreshModes == {"none", "debounce", "throttle"}

(***************************************************************************)
(* lib/utils and host helpers used by the component.                       *)
(***************************************************************************)
isDOMElement(x) == x \in Nodes

\* document.querySelector
documentQuerySelector(sel) ==
  CASE sel = "#a" -> "a"
    [] sel = "#b" -> "b"
    [] OTHER -> Null

\* Element.parentElement of the component's own rendered node
parentElement(n) == IF n = SelfNode THEN ParentNode ELSE Null

\* getHandle(refreshMode): debounce or throttle, or nothing
getHandle(mode) == IF mode \in {"debounce", "throttle"} THEN mode ELSE Null

\* leading/trailing edges of the wrapped handler: refreshOptions when given,
\* else the defaults of the primitive (debounce: trailing only; throttle: both)
Leading(p) ==
  IF p.refreshOptions.given THEN p.refreshOptions.leading
  ELSE p.refreshMode = "throttle"
Trailing(p) ==
  IF p.refreshOptions.given THEN p.refreshOptions.trailing ELSE TRUE

(***************************************************************************)
(* raf-schd: the frame-aligned coalescing primitive.  A scheduler holds    *)
(* the arguments of its latest call and one pending frame request at most. *)
(* `live` tells whether this.raf holds a scheduler (FALSE: this.raf=null). *)
(***************************************************************************)
Raf == [live : BOOLEAN, frameId : BOOLEAN, lastArgs : Size]
NoRaf == [live |-> FALSE, frameId |-> FALSE, lastArgs |-> UndefSize]
\* rafSchd(fn): a new scheduler, nothing requested yet
rafSchd == [live |-> TRUE, frameId |-> FALSE, lastArgs |-> UndefSize]
\* variant: the arguments of a call made while a frame is pending are dropped
rafCallFirst(r, size) ==
  IF r.frameId THEN r ELSE [r EXCEPT !.lastArgs = size, !.frameId = TRUE]

\* the scheduler called with a size: remember it, request a frame if none is pending
rafCall(r, size) == [r EXCEPT !.lastArgs = size, !.frameId = TRUE]
\* scheduler.cancel()
rafCancel(r) == [r EXCEPT !.frameId = FALSE]

\* variant: the scheduler is dropped without cancelling its frame request
rafCleanNoCancel(r) == [r EXCEPT !.live = FALSE]

\* rafClean: cancel the pending frame of this.raf and drop the scheduler
rafClean(r) == IF r.live THEN NoRaf ELSE r

\* variant: the previous scheduler is replaced without rafClean
createUpdaterNoClean(r) ==
  [raf |-> rafSchd,
   orphan |-> IF r.frameId THEN <<r.lastArgs>> ELSE <<>>]

\* createUpdater: rafClean, then this.raf = rafSchd(flush).  A frame request
\* that rafClean left pending stays with the browser although this.raf no
\* longer refers to its scheduler: `orphan` lists its size.
createUpdater(r) ==
  [raf |-> rafSchd,
   orphan |-> IF rafClean(r).frameId THEN <<rafClean(r).lastArgs>> ELSE <<>>]

(***************************************************************************)
(* createResizeHandler: the raw callback of the observer.                  *)
(***************************************************************************)
\* const { width, height } = (entry && entry.contentRect) || {}
contentRect(entry) ==
  IF entry.hasRect THEN SizeOf(entry.width, entry.height) ELSE UndefSize

\* variant: a handled dimension counts as changed without being compared
isSizeChangedAlways(p, cur, rect) == p.handleWidth \/ p.handleHeight

isSizeChanged(p, cur, rect) ==
  \/ p.handleWidth /\ cur.width # rect.width
  \/ p.handleHeight /\ cur.height # rect.height

\* variant: the execution context is not consulted
shouldSetSizeAnywhere(skip, changed, ssr) == ~skip /\ changed

\* variant: the mount-suppression flag is not consulted
shouldSetSizeNoSkip(skip, changed, ssr) == changed /\ ~ssr

shouldSetSize(skip, changed, ssr) == ~skip /\ changed /\ ~ssr

\* variant: the flag keeps its value when an entry is processed
skipAfterEntryKeep(skip) == skip

\* if (!handleWidth && !handleHeight) return;
handlesNothing(p) == ~p.handleWidth /\ ~p.handleHeight

\* the value this.skipOnMount holds after an entry was processed
skipAfterEntry(skip) == FALSE

\* entries.forEach(...), from entry i on; acc = [skipOnMount, raf, fwd] where
\* fwd lists the sizes handed to the updater so far
RECURSIVE forEachEntry(_, _, _, _, _, _)
forEachEntry(entries, i, p, cur, ssr, acc) ==
  IF i > Len(entries) THEN acc
  ELSE LET rect == contentRect(entries[i])
           set == shouldSetSize(acc.skipOnMount, isSizeChanged(p, cur, rect), ssr)
       IN forEachEntry(entries, i + 1, p, cur, ssr,
            [skipOnMount |-> skipAfterEntry(acc.skipOnMount),
             raf |-> IF set THEN rafCall(acc.raf, rect) ELSE acc.raf,
             fwd |-> IF set THEN Append(acc.fwd, rect) ELSE acc.fwd])

\* variant: both dimensions are compared whatever handleWidth/handleHeight say
createResizeHandlerAll(entries, p, cur, ssr, skip, r) ==
  LET q == [p EXCEPT !.handleWidth = TRUE, !.handleHeight = TRUE]
      updater == createUpdater(r)
      done == forEachEntry(entries, 1, q, cur, ssr,
                [skipOnMount |-> skip, raf |-> updater.raf, fwd |-> <<>>])
  IN [skipOnMount |-> done.skipOnMount, raf |-> done.raf, fwd |-> done.fwd,
      orphan |-> updater.orphan, ran |-> TRUE]

\* the result also tells whether the entries were processed (ran) and which
\* frame request, if any, was left behind by createUpdater (orphan)
createResizeHandler(entries, p, cur, ssr, skip, r) ==
  IF handlesNothing(p)
  THEN [skipOnMount |-> skip, raf |-> r, fwd |-> <<>>, orphan |-> <<>>, ran |-> FALSE]
  ELSE LET updater == createUpdater(r)
           done == forEachEntry(entries, 1, p, cur, ssr,
                     [skipOnMount |-> skip, raf |-> updater.raf, fwd |-> <<>>])
       IN [skipOnMount |-> done.skipOnMount, raf |-> done.raf, fwd |-> done.fwd,
           orphan |-> updater.orphan, ran |-> TRUE]

\* variant: onResize is given the height first
flushSwapped(size, p, mounted, cur) ==
  [calls |-> IF p.onResize THEN <<SizeOf(size.height, size.width)>> ELSE <<>>,
   commits |-> IF mounted THEN <<size>> ELSE <<>>,
   state |-> IF mounted THEN size ELSE cur]

\* the function given to rafSchd (createUpdater): onResize when it is a
\* function, then setState.  React ignores setState on an unmounted component.
flush(size, p, mounted, cur) ==
  [calls |-> IF p.onResize THEN <<size>> ELSE <<>>,
   commits |-> IF mounted THEN <<size>> ELSE <<>>,
   state |-> IF mounted THEN size ELSE cur]

\* the frame callbacks a frame runs, oldest first: pending is a sequence of sizes
RECURSIVE flushAll(_, _, _, _)
flushAll(pending, p, mounted, acc) ==
  IF pending = <<>> THEN acc
  ELSE LET f == flush(Head(pending), p, mounted, acc.state)
       IN flushAll(Tail(pending), p, mounted,
            [calls |-> acc.calls \o f.calls, commits |-> acc.commits \o f.commits,
             state |-> f.state])

(***************************************************************************)
(* The debounce/throttle primitive wrapped around createResizeHandler:     *)
(* wrap(fn, interval, {leading, trailing}) with a cancel() method.  The    *)
(* interval is abstracted: the timer expires at some later step.           *)
(***************************************************************************)
NoDeb == [timerId |-> FALSE, lastArgs |-> <<>>]

\* the wrapped handler called with a batch; invoke lists the batches handed
\* to createResizeHandler by this call
debounced(d, args, lead) ==
  IF ~d.timerId /\ lead
  THEN [deb |-> [timerId |-> TRUE, lastArgs |-> <<>>], invoke |-> <<args>>]
  ELSE [deb |-> [timerId |-> TRUE, lastArgs |-> args], invoke |-> <<>>]

\* the timer expires: the trailing edge
timerExpired(d, trail) ==
  [deb |-> NoDeb,
   invoke |-> IF trail /\ d.lastArgs # <<>> THEN <<d.lastArgs>> ELSE <<>>]

\* wrapped.cancel()
debCancel(d) == NoDeb

\* Time.  An untimed run (timed = FALSE) leaves the clock alone: any amount
\* of time may pass between two steps, so the timer may expire whenever it is
\* pending and every call may find the interval elapsed.  A timed run keeps
\* the time in ms: the timer expires at its deadline, and the wrapped handler
\* invokes createResizeHandler at most once per `wait` ms.
NoClock ==
  [timed |-> FALSE, tracking |-> FALSE, now |-> 0, wait |-> 0, due |-> 0,
   invoked |-> FALSE, lastInvoke |-> 0, arrived |-> {}, lastSize |-> UndefSize,
   log |-> <<>>]

\* has the interval passed since createResizeHandler was last invoked
IntervalElapsed(c) ==
  ~c.timed \/ ~c.invoked \/ c.now - c.lastInvoke >= c.wait

\* may the pending timer expire now
TimerDue(c) == c.timed => c.now = c.due

\* createResizeHandler was (not) invoked at the present time
clockInvoked(c, invoked) ==
  IF ~c.timed \/ ~invoked THEN c
  ELSE [c EXCEPT !.invoked = TRUE, !.lastInvoke = c.now]

\* the wrapped handler was called: a call that finds no timer starts one,
\* which expires when the interval since the last invocation ends
clockCalled(c, timerWas, invoked) ==
  IF ~c.timed THEN c
  ELSE [clockInvoked(c, invoked) EXCEPT
          !.due = IF timerWas THEN @
                  ELSE IF invoked \/ IntervalElapsed(c) THEN c.now + c.wait
                  ELSE c.lastInvoke + c.wait]

\* history: the observer delivered a batch at the present time; an untimed
\* run that tracks deliveries remembers the size of the last entry alone
clockArrived(c, batch) ==
  IF c.timed
  THEN [c EXCEPT !.arrived = @ \cup {c.now},
                 !.lastSize = contentRect(batch[Len(batch)])]
  ELSE IF c.tracking
  THEN [c EXCEPT !.lastSize = contentRect(batch[Len(batch)])]
  ELSE c

\* history: n updates were committed at the present time
clockCommitted(c, n) ==
  IF ~c.timed THEN c
  ELSE [c EXCEPT !.log = @ \o [i \in 1..n |-> c.now]]

\* cancelHandler: only a wrapped handler has cancel()
cancelHandler(h, d) ==
  IF h = "wrapped"
  THEN [resizeHandler |-> Null, deb |-> debCancel(d)]
  ELSE [resizeHandler |-> h, deb |-> d]

\* ResizeObserver.disconnect()
disconnect(registered) == {}

(***************************************************************************)
(* The render dispatcher.                                                  *)
(***************************************************************************)
isValidElement(c) == c.kind = "element"
isArray(c) == c.kind = "array"

\* variant: a function child is looked for before the render prop
getRenderTypeChildrenFirst(p) ==
  IF p.children.kind = "function" THEN "childFunction"
  ELSE IF p.render THEN "renderProp"
  ELSE IF isValidElement(p.children) THEN "child"
  ELSE IF isArray(p.children) THEN "childArray"
  ELSE "parent"

getRenderType(p) ==
  IF p.render THEN "renderProp"
  ELSE IF p.children.kind = "function" THEN "childFunction"
  ELSE IF isValidElement(p.children) THEN "child"
  ELSE IF isArray(p.children) THEN "childArray"
  ELSE "parent"

\* one produced output and the childProps it was given (injected = FALSE: none)
Given(kind, cp) ==
  [kind |-> kind, injected |-> TRUE, width |-> cp.width, height |-> cp.height]
NotGiven(kind) ==
  [kind |-> kind, injected |-> FALSE, width |-> U, height |-> U]

\* children.map(el => !!el && cloneElement(el, childProps))
cloneEach(items, cp) ==
  [i \in 1..Len(items) |->
     IF items[i] = "null" THEN NotGiven("false") ELSE Given("clone", cp)]

render(p, st) ==
  LET childProps == SizeOf(st.width, st.height)
      renderType == getRenderType(p)
  IN CASE renderType = "renderProp" ->
            [strategy |-> renderType, out |-> <<Given("render", childProps)>>]
       [] renderType = "childFunction" ->
            [strategy |-> renderType, out |-> <<Given("children", childProps)>>]
       [] renderType = "child" ->
            [strategy |-> renderType, out |-> <<Given("clone", childProps)>>]
       [] renderType = "childArray" ->
            [strategy |-> renderType, out |-> cloneEach(p.children.items, childProps)]
       [] OTHER ->
            [strategy |-> renderType, out |-> <<NotGiven("WrapperTag")>>]

(***************************************************************************)
(* The element resolver and the observation adapter.                       *)
(***************************************************************************)
\* findDOMNode(this): the node the component rendered, if any
findDOMNode(e) == e.ownNode

\* variant: targetDomEl is looked at before querySelector
getElementElFirst(p, e, tref) ==
  IF e.ssr THEN Null
  ELSE IF p.targetDomEl # Null /\ isDOMElement(p.targetDomEl) THEN p.targetDomEl
  ELSE IF p.querySelector # NoSel THEN documentQuerySelector(p.querySelector)
  ELSE IF isDOMElement(tref) THEN tref
  ELSE LET currentElement == findDOMNode(e)
       IN IF currentElement = Null THEN Null
          ELSE IF getRenderType(p) \in {"renderProp", "childFunction", "child", "childArray"}
               THEN currentElement
               ELSE parentElement(currentElement)

\* variant: the rendered node is returned under every strategy
getElementOwnNode(p, e, tref) ==
  IF e.ssr THEN Null
  ELSE IF p.querySelector # NoSel THEN documentQuerySelector(p.querySelector)
  ELSE IF p.targetDomEl # Null /\ isDOMElement(p.targetDomEl) THEN p.targetDomEl
  ELSE IF isDOMElement(tref) THEN tref
  ELSE findDOMNode(e)

getElement(p, e, tref) ==
  IF e.ssr THEN Null
  ELSE IF p.querySelector # NoSel THEN documentQuerySelector(p.querySelector)
  ELSE IF p.targetDomEl # Null /\ isDOMElement(p.targetDomEl) THEN p.targetDomEl
  ELSE IF isDOMElement(tref) THEN tref
  ELSE LET currentElement == findDOMNode(e)
       IN IF currentElement = Null THEN Null
          ELSE IF getRenderType(p) \in {"renderProp", "childFunction", "child", "childArray"}
               THEN currentElement
               ELSE parentElement(currentElement)

\* if (targetRef && targetRef.current) this.targetRef.current = targetRef.current
syncTargetRef(p, tref) ==
  IF p.targetRef.given /\ p.targetRef.current # Null THEN p.targetRef.current ELSE tref

\* ResizeObserver.observe(node): the node joins the observer's registrations
observe(registered, node) == registered \cup {node}

\* variant: the resolved element is registered without being compared with
\* the observed one
attachObserverAlways(p, e, tref, obsEl, registered) ==
  LET ref == syncTargetRef(p, tref)
      element == getElement(p, e, ref)
  IN IF element = Null
     THEN [targetRef |-> ref, observableElement |-> obsEl, element |-> element,
           registered |-> registered, observeCalls |-> <<>>]
     ELSE [targetRef |-> ref, observableElement |-> element, element |-> element,
           registered |-> observe(registered, element), observeCalls |-> <<element>>]

\* variant: the observed element is forgotten when none is found
attachObserverForget(p, e, tref, obsEl, registered) ==
  LET ref == syncTargetRef(p, tref)
      element == getElement(p, e, ref)
  IN IF element = Null
     THEN [targetRef |-> ref, observableElement |-> Null, element |-> element,
           registered |-> registered, observeCalls |-> <<>>]
     ELSE IF obsEl # Null /\ obsEl = element
     THEN [targetRef |-> ref, observableElement |-> obsEl, element |-> element,
           registered |-> registered, observeCalls |-> <<>>]
     ELSE [targetRef |-> ref, observableElement |-> element, element |-> element,
           registered |-> observe(registered, element), observeCalls |-> <<element>>]

\* attachObserver; `element` is what getElement returned and observeCalls
\* lists the nodes passed to observe()
attachObserver(p, e, tref, obsEl, registered) ==
  LET ref == syncTargetRef(p, tref)
      element == getElement(p, e, ref)
  IN IF element = Null \/ (obsEl # Null /\ obsEl = element)
     THEN [targetRef |-> ref, observableElement |-> obsEl, element |-> element,
           registered |-> registered, observeCalls |-> <<>>]
     ELSE [targetRef |-> ref, observableElement |-> element, element |-> element,
           registered |-> observe(registered, element), observeCalls |-> <<element>>]

(***************************************************************************)
(* State.                                                                  *)
(***************************************************************************)
VARIABLES
  props,             \* this.props
  env,               \* the host: ssr (isSSR()) and the node the component rendered
  state,             \* this.state: width, height
  skipOnMount,       \* this.skipOnMount
  raf,               \* this.raf
  orphans,           \* frame requests of schedulers this.raf no longer refers to
  unmounted,         \* this.unmounted
  targetRef,         \* this.targetRef.current
  observableElement, \* this.observableElement
  resizeHandler,     \* this.resizeHandler: "direct", "wrapped" or Null
  resizeObserver,    \* this.resizeObserver: its callback and its registrations
  deb,               \* the wrapped handler's timer and latest arguments
  phase,             \* lifecycle: "constructed", "mounted", "unmounted"
  rendered,          \* what the last render() returned
  inflight,          \* the batch the observer has gathered and is about to
                     \* hand to its callback; <<>> when there is none
  last,              \* history: what the last step did
  late,              \* history: was the pending frame / timer requested after teardown
  win,               \* history: the sizes forwarded since the last frame
  seen,              \* history: has an entry been processed, has a qualifying one,
                     \* was a dimension ever handled
  clock              \* time in ms as the wrapped handler's timer sees it, when
                     \* a run is timed: refreshRate (wait), the timer's deadline,
                     \* the time of the last invocation; history: commit times

vars == <<props, env, state, skipOnMount, raf, orphans, unmounted, targetRef,
          observableElement, resizeHandler, resizeObserver, deb, phase, rendered,
          inflight, last, late, win, seen, clock>>

NoRef == [given |-> FALSE, current |-> Null]
NoOptions == [given |-> FALSE, leading |-> FALSE, trailing |-> FALSE]
\* refreshOptions: absent, or given
LeadingOnly == [given |-> TRUE, leading |-> TRUE, trailing |-> FALSE]
NoEdge == [given |-> TRUE, leading |-> FALSE, trailing |-> FALSE]
RefreshOptions == {NoOptions, LeadingOnly, NoEdge}

\* the record of a step: whether createResizeHandler was invoked (called) and
\* processed the entries (ran), how many entries it was given when each of them
\* carried a contentRect (measured; 0 otherwise), how many sizes were forwarded
\* to the updater (nfwd), the
\* arguments of the onResize calls, the sizes committed by setState, the
\* element getElement returned, the nodes passed to observe(), and for a frame
\* how many sizes the step before it had forwarded (prevFwd), and whether a frame / a timer was pending when the step began
Last(op) ==
  [op |-> op, called |-> FALSE, ran |-> FALSE, measured |-> 0, nfwd |-> 0,
   calls |-> <<>>, commits |-> <<>>, element |-> Null, observeCalls |-> <<>>,
   prevFwd |-> 0, preFrame |-> FALSE, preTimer |-> FALSE]

\* variant: the observer is handed createResizeHandler itself, whatever the
\* refresh mode
ConstructedRaw(p, e) ==
  /\ props = p
  /\ env = e
  /\ state = UndefSize
  /\ skipOnMount = p.skipOnMount
  /\ raf = NoRaf
  /\ orphans = <<>>
  /\ unmounted = FALSE
  /\ targetRef = Null
  /\ observableElement = Null
  /\ resizeHandler = "direct"
  /\ resizeObserver = [callback |-> "direct",
                       leading |-> Leading(p), trailing |-> Trailing(p),
                       registered |-> {}]
  /\ deb = NoDeb
  /\ phase = "constructed"
  /\ rendered = render(p, UndefSize)
  /\ inflight = <<>>
  /\ last = Last("constructor")
  /\ late = [raf |-> FALSE, timer |-> FALSE]
  /\ win = [any |-> FALSE, size |-> UndefSize]
  /\ seen = [entry |-> FALSE, qual |-> FALSE, handled |-> p.handleWidth \/ p.handleHeight]

\* the constructor, followed by the first render()
Constructed(p, e) ==
  /\ props = p
  /\ env = e
  /\ state = UndefSize
  /\ skipOnMount = p.skipOnMount
  /\ raf = NoRaf
  /\ orphans = <<>>
  /\ unmounted = FALSE
  /\ targetRef = Null
  /\ observableElement = Null
  /\ resizeHandler = IF getHandle(p.refreshMode) # Null THEN "wrapped" ELSE "direct"
  /\ resizeObserver = [callback |-> IF getHandle(p.refreshMode) # Null THEN "wrapped" ELSE "direct",
                       leading |-> Leading(p), trailing |-> Trailing(p),
                       registered |-> {}]
  /\ deb = NoDeb
  /\ phase = "constructed"
  /\ rendered = render(p, UndefSize)
  /\ inflight = <<>>
  /\ last = Last("constructor")
  /\ late = [raf |-> FALSE, timer |-> FALSE]
  /\ win = [any |-> FALSE, size |-> UndefSize]
  /\ seen = [entry |-> FALSE, qual |-> FALSE, handled |-> p.handleWidth \/ p.handleHeight]

(***************************************************************************)
(* Operations.                                                             *)
(***************************************************************************)
Attached(a) ==
  /\ targetRef' = a.targetRef
  /\ observableElement' = a.observableElement
  /\ resizeObserver' = [resizeObserver EXCEPT !.registered = a.registered]

componentDidMount ==
  /\ phase = "constructed"
  /\ phase' = "mounted"
  /\ LET a == attachObserver(props, env, targetRef, observableElement,
                             resizeObserver.registered)
     IN /\ Attached(a)
        /\ last' = [Last("componentDidMount") EXCEPT !.observeCalls = a.observeCalls,
                                                     !.element = a.element]
  /\ UNCHANGED <<props, env, state, skipOnMount, raf, orphans, unmounted,
                 resizeHandler, deb, rendered, inflight, late, win, seen, clock>>

\* new props (and possibly a new rendered node) arrive: render, componentDidUpdate
componentDidUpdate(np, ne) ==
  /\ phase = "mounted"
  /\ inflight = <<>>
  /\ props' = np
  /\ env' = ne
  /\ rendered' = render(np, state)
  /\ LET a == attachObserver(np, ne, targetRef, observableElement,
                             resizeObserver.registered)
     IN /\ Attached(a)
        /\ last' = [Last("componentDidUpdate") EXCEPT !.observeCalls = a.observeCalls,
                                                      !.element = a.element]
  /\ seen' = [seen EXCEPT !.handled = @ \/ np.handleWidth \/ np.handleHeight]
  /\ UNCHANGED <<state, skipOnMount, raf, orphans, unmounted, resizeHandler, deb,
                 phase, inflight, late, win, clock>>

componentWillUnmount ==
  /\ phase = "mounted"
  /\ inflight = <<>>
  /\ phase' = "unmounted"
  /\ resizeObserver' = [resizeObserver EXCEPT !.registered = disconnect(@)]
  /\ raf' = rafClean(raf)
  /\ LET c == cancelHandler(resizeHandler, deb)
     IN /\ resizeHandler' = c.resizeHandler
        /\ deb' = c.deb
  /\ unmounted' = TRUE
  /\ last' = [Last("componentWillUnmount") EXCEPT !.preFrame = raf.frameId,
                                                  !.preTimer = deb.timerId]
  /\ UNCHANGED <<props, env, state, skipOnMount, orphans, targetRef,
                 observableElement, rendered, inflight, late, win, seen, clock>>

\* an entry qualifies when its size differs from the state in a handled dimension
Qualifies(p, cur, entry) ==
  \/ p.handleWidth /\ entry.width # cur.width
  \/ p.handleHeight /\ entry.height # cur.height

\* the observer has gathered one of the batches bs for its callback.  The
\* callback runs in the same task: no other handler of the component runs in
\* between.
Observe(bs) ==
  /\ phase # "constructed"
  /\ inflight = <<>>
  /\ inflight' \in bs
  /\ last' = Last("observe")
  /\ UNCHANGED <<props, env, state, skipOnMount, raf, orphans, unmounted, targetRef,
                 observableElement, resizeHandler, resizeObserver, deb, phase,
                 rendered, late, win, seen, clock>>

\* createResizeHandler is invoked with each batch of `invoke` (none or one)
Handle(op, invoke, timerLate) ==
  LET h == IF invoke = <<>>
           THEN [skipOnMount |-> skipOnMount, raf |-> raf, fwd |-> <<>>,
                 orphan |-> <<>>, ran |-> FALSE]
           ELSE createResizeHandler(invoke[1], props, state, env.ssr, skipOnMount, raf)
  IN /\ skipOnMount' = h.skipOnMount
     /\ raf' = h.raf
     /\ orphans' = orphans \o h.orphan
     /\ last' = [Last(op) EXCEPT
                   !.called = invoke # <<>>,
                   !.ran = h.ran,
                   !.measured = IF /\ invoke # <<>>
                                   /\ \A i \in 1..Len(invoke[1]) : invoke[1][i].hasRect
                                THEN Len(invoke[1]) ELSE 0,
                   !.nfwd = Len(h.fwd)]
     /\ late' = [raf |-> IF h.ran THEN h.raf.frameId /\ unmounted ELSE late.raf,
                 timer |-> timerLate]
     /\ win' = IF h.fwd = <<>> THEN win
               ELSE [any |-> TRUE, size |-> h.fwd[Len(h.fwd)]]
     /\ seen' = [seen EXCEPT !.entry = @ \/ h.ran,
                             !.qual = @ \/ (h.ran /\ \E i \in 1..Len(invoke[1]) :
                                                       Qualifies(props, state, invoke[1][i]))]

\* the observer invokes its callback with the batch it gathered
NativeCallback ==
  /\ inflight # <<>>
  /\ inflight' = <<>>
  /\ IF resizeObserver.callback = "direct"
     THEN /\ Handle("NativeCallback", <<inflight>>, late.timer)
          /\ clock' = clockArrived(clock, inflight)
          /\ UNCHANGED deb
     ELSE LET d == debounced(deb, inflight,
                             resizeObserver.leading /\ IntervalElapsed(clock))
          IN /\ deb' = d.deb
             /\ clock' = clockCalled(clockArrived(clock, inflight), deb.timerId,
                                     d.invoke # <<>>)
             /\ Handle("NativeCallback", d.invoke,
                       IF deb.timerId THEN late.timer ELSE unmounted)
  /\ UNCHANGED <<props, env, state, unmounted, targetRef, observableElement,
                 resizeHandler, resizeObserver, phase, rendered>>

\* the timer of the wrapped handler expires
TimerFire ==
  /\ deb.timerId
  /\ inflight = <<>>
  /\ TimerDue(clock)
  /\ LET d == timerExpired(deb, resizeObserver.trailing)
     IN /\ deb' = d.deb
        /\ clock' = clockInvoked(clock, d.invoke # <<>>)
        /\ Handle("TimerFire", d.invoke, FALSE)
  /\ UNCHANGED <<props, env, state, unmounted, targetRef, observableElement,
                 resizeHandler, resizeObserver, phase, rendered, inflight>>

\* a rendering frame: the browser runs every requested frame callback.  A
\* changed state re-renders and runs componentDidUpdate.
Frame ==
  /\ raf.frameId \/ orphans # <<>>
  /\ inflight = <<>>
  /\ LET pending == orphans \o (IF raf.frameId THEN <<raf.lastArgs>> ELSE <<>>)
         f == flushAll(pending, props, phase = "mounted",
                       [calls |-> <<>>, commits |-> <<>>, state |-> state])
         a == IF f.state # state
              THEN attachObserver(props, env, targetRef, observableElement,
                                  resizeObserver.registered)
              ELSE [targetRef |-> targetRef, observableElement |-> observableElement,
                    element |-> Null, registered |-> resizeObserver.registered,
                    observeCalls |-> <<>>]
     IN /\ state' = f.state
        /\ rendered' = IF f.state # state THEN render(props, f.state) ELSE rendered
        /\ Attached(a)
        /\ clock' = clockCommitted(clock, Len(f.commits))
        /\ last' = [Last("Frame") EXCEPT !.calls = f.calls, !.commits = f.commits,
                                         !.element = a.element,
                                         !.observeCalls = a.observeCalls,
                                         !.prevFwd = last.nfwd]
  /\ raf' = [raf EXCEPT !.frameId = FALSE]
  /\ orphans' = <<>>
  /\ late' = [late EXCEPT !.raf = FALSE]
  /\ win' = [any |-> FALSE, size |-> UndefSize]
  /\ UNCHANGED <<props, env, skipOnMount, unmounted, resizeHandler, deb, phase,
                 inflight, seen>>

(***************************************************************************)
(* Spec: the rate limiter and the lifecycle of one instance under every    *)
(* configuration of the handled dimensions, skipOnMount, the refresh mode  *)
(* and onResize.  The target is an explicit element, the output a function *)
(* child; the observer delivers the entry of that one element.             *)
(***************************************************************************)
BrowserEnv == [ssr |-> FALSE, ownNode |-> SelfNode]
ServerEnv == [ssr |-> TRUE, ownNode |-> Null]

LimiterProps(e) ==
  {p \in [handleWidth : BOOLEAN, handleHeight : BOOLEAN, skipOnMount : BOOLEAN,
          refreshMode : RefreshModes, refreshOptions : RefreshOptions,
          onResize : BOOLEAN, querySelector : {NoSel},
          targetDomEl : {IF e.ssr THEN Null ELSE "a"}, targetRef : {NoRef},
          render : {FALSE}, children : {ChildrenOf("function")}] :
     \* each primitive with its defaults (debounce: trailing edge; throttle: both
     \* edges), debounce on the leading edge alone, throttle on no edge
     /\ p.refreshMode = "none" => p.refreshOptions = NoOptions
     /\ p.refreshMode = "debounce" => p.refreshOptions \in {NoOptions, LeadingOnly}
     /\ p.refreshMode = "throttle" => p.refreshOptions \in {NoOptions, NoEdge}}

Init ==
  /\ \E e \in {BrowserEnv, ServerEnv} : \E p \in LimiterProps(e) : Constructed(p, e)
  /\ clock = NoClock

\* the one observed element resizes: the observer gathers its entry
Deliver == Observe({<<e>> : e \in Entry})

Next ==
  \/ componentDidMount
  \/ componentWillUnmount
  \/ Deliver
  \/ NativeCallback
  \/ TimerFire
  \/ Frame

Spec == Init /\ [][Next]_vars

(***************************************************************************)
(* SpecBatch: the handler given batches of several entries.  The handler   *)
(* is the direct one, on a mounted component in a browser, with a          *)
(* dimension handled and either value of skipOnMount.                      *)
(***************************************************************************)
BatchProps ==
  {p \in LimiterProps(BrowserEnv) :
     /\ p.refreshMode = "none" /\ p.onResize
     /\ p.handleWidth \/ p.handleHeight}

InitBatch ==
  /\ \E p \in BatchProps : Constructed(p, BrowserEnv)
  /\ clock = NoClock

DeliverBatch == Observe(Batches)

NextBatch ==
  \/ componentDidMount
  \/ DeliverBatch
  \/ NativeCallback
  \/ Frame

SpecBatch == InitBatch /\ [][NextBatch]_vars

(***************************************************************************)
(* SpecUpdate: configuration changes.  Every update may bring any          *)
(* combination of handleWidth, handleHeight, skipOnMount and onResize,     *)
(* while entries arrive and frames fire; the handler is the direct one.    *)
(***************************************************************************)
UpdateProps == {p \in LimiterProps(BrowserEnv) : p.refreshMode = "none"}

InitUpdate ==
  /\ \E p \in UpdateProps : Constructed(p, BrowserEnv)
  /\ clock = NoClock

UpdateConfig == \E np \in UpdateProps : componentDidUpdate(np, env)

NextUpdate ==
  \/ componentDidMount
  \/ UpdateConfig
  \/ componentWillUnmount
  \/ Deliver
  \/ NativeCallback
  \/ Frame

SpecUpdate == InitUpdate /\ [][NextUpdate]_vars

(***************************************************************************)
(* SpecServer: a non-browser execution context.  The props may name a      *)
(* selector; lifecycle events and callbacks are driven as in a browser.    *)
(***************************************************************************)
ServerProps ==
  [handleWidth : BOOLEAN, handleHeight : BOOLEAN, skipOnMount : BOOLEAN,
   refreshMode : {"none"}, refreshOptions : {NoOptions}, onResize : {TRUE},
   querySelector : Selectors \cup {NoSel}, targetDomEl : {Null},
   targetRef : {NoRef}, render : {FALSE},
   children : {ChildrenOf("null"), ChildrenOf("function")}]

InitServer ==
  /\ \E p \in ServerProps : Constructed(p, ServerEnv)
  /\ clock = NoClock

UpdateServer == \E np \in ServerProps : componentDidUpdate(np, env)

NextServer ==
  \/ componentDidMount
  \/ UpdateServer
  \/ componentWillUnmount
  \/ Deliver
  \/ NativeCallback

SpecServer == InitServer /\ [][NextServer]_vars

(***************************************************************************)
(* SpecAttach: the resolver and the observation adapter.  Every update may *)
(* bring any combination of querySelector, targetDomEl, targetRef and a    *)
(* function child or none, and the rendered node may appear or disappear.  *)
(***************************************************************************)
TargetRefs == {NoRef} \cup [given : {TRUE}, current : ExtNodes \cup {Null, NotEl}]

TargetProps ==
  [handleWidth : {TRUE}, handleHeight : {TRUE}, skipOnMount : {FALSE},
   refreshMode : {"none"}, refreshOptions : {NoOptions}, onResize : {TRUE},
   querySelector : Selectors \cup {NoSel}, targetDomEl : {Null, NotEl, "b"},
   targetRef : TargetRefs, render : {FALSE},
   children : {ChildrenOf("null"), ChildrenOf("function")}]

\* the wrapper tag of the fallback strategy is always rendered; the other
\* strategies render what the caller's function or children produce
BrowserEnvs(p) ==
  {e \in [ssr : {FALSE}, ownNode : {Null, SelfNode}] :
     getRenderType(p) = "parent" => e.ownNode = SelfNode}

InitAttach ==
  /\ \E p \in TargetProps : \E e \in BrowserEnvs(p) : Constructed(p, e)
  /\ clock = NoClock

UpdateTarget == \E np \in TargetProps : \E ne \in BrowserEnvs(np) : componentDidUpdate(np, ne)

NextAttach ==
  \/ componentDidMount
  \/ UpdateTarget
  \/ componentWillUnmount

SpecAttach == InitAttach /\ [][NextAttach]_vars

(***************************************************************************)
(* SpecInfer: the inferred element.  Every update may bring any            *)
(* combination of render and children, with or without targetDomEl and     *)
(* targetRef, and the rendered node may appear or disappear.               *)
(***************************************************************************)
InferProps ==
  [handleWidth : {TRUE}, handleHeight : {TRUE}, skipOnMount : {FALSE},
   refreshMode : {"none"}, refreshOptions : {NoOptions}, onResize : {TRUE},
   querySelector : {NoSel}, targetDomEl : {Null, "b"},
   targetRef : {NoRef, [given |-> TRUE, current |-> "a"]},
   render : BOOLEAN, children : Children]

InitInfer ==
  /\ \E p \in InferProps : \E e \in BrowserEnvs(p) : Constructed(p, e)
  /\ clock = NoClock

UpdateInfer == \E np \in InferProps : \E ne \in BrowserEnvs(np) : componentDidUpdate(np, ne)

NextInfer ==
  \/ componentDidMount
  \/ UpdateInfer
  \/ componentWillUnmount

SpecInfer == InitInfer /\ [][NextInfer]_vars

(***************************************************************************)
(* SpecRender: the render dispatcher.  Every update may bring any          *)
(* combination of render and children; sizes arrive and are committed.     *)
(***************************************************************************)
RenderProps ==
  [handleWidth : {TRUE}, handleHeight : {TRUE}, skipOnMount : {FALSE},
   refreshMode : {"none"}, refreshOptions : {NoOptions}, onResize : {TRUE},
   querySelector : {NoSel}, targetDomEl : {"a"}, targetRef : {NoRef},
   render : BOOLEAN, children : Children]

InitRender ==
  /\ \E p \in RenderProps : Constructed(p, BrowserEnv)
  /\ clock = NoClock

UpdateRender == \E np \in RenderProps : componentDidUpdate(np, env)

DeliverOne == Observe({<<RectEntry(w, h)>> : w, h \in Dims})

NextRender ==
  \/ componentDidMount
  \/ UpdateRender
  \/ componentWillUnmount
  \/ DeliverOne
  \/ NativeCallback
  \/ Frame

SpecRender == InitRender /\ [][NextRender]_vars

(***************************************************************************)
(* SpecThrottle: a timed run.  refreshMode = "throttle" with the default   *)
(* edges and refreshRate = 200; the component mounts at time 0 and the     *)
(* observer delivers one entry at each of the arrival times, each of a     *)
(* size other than the one before it.  A requested frame runs before the   *)
(* next arrival or deadline (a frame is due within ~16 ms, the events are  *)
(* 50 ms apart at least).                                                  *)
(***************************************************************************)
ArrivalTimes == {0, 50, 100, 250}

ThrottleProps ==
  {p \in LimiterProps(BrowserEnv) :
     p.refreshMode = "throttle" /\ ~p.refreshOptions.given}

InitThrottle ==
  /\ \E p \in ThrottleProps : Constructed(p, BrowserEnv)
  /\ clock = [NoClock EXCEPT !.timed = TRUE, !.wait = 200]

\* the observer gathers the entry of the present arrival time
Arrive ==
  /\ clock.timed
  /\ phase = "mounted"
  /\ clock.now \in ArrivalTimes \ clock.arrived
  /\ Observe({<<e>> : e \in {x \in Entry : x.hasRect /\ contentRect(x) # clock.lastSize}})

\* time passes to the next arrival or to the timer's deadline, whichever is
\* first, once everything that is due now has happened
Tick ==
  /\ clock.timed
  /\ phase = "mounted"
  /\ inflight = <<>>
  /\ ~raf.frameId /\ orphans = <<>>
  /\ clock.now \in ArrivalTimes => clock.now \in clock.arrived
  /\ deb.timerId => clock.due > clock.now
  /\ \E t \in ArrivalTimes : t > clock.now
  /\ LET events == {t \in ArrivalTimes : t > clock.now}
                      \cup (IF deb.timerId THEN {clock.due} ELSE {})
     IN clock' = [clock EXCEPT
                    !.now = CHOOSE t \in events : \A u \in events : t <= u]
  /\ last' = Last("Tick")
  /\ UNCHANGED <<props, env, state, skipOnMount, raf, orphans, unmounted, targetRef,
                 observableElement, resizeHandler, resizeObserver, deb, phase,
                 rendered, inflight, late, win, seen>>

NextThrottle ==
  \/ componentDidMount
  \/ Arrive
  \/ NativeCallback
  \/ TimerFire
  \/ Frame
  \/ Tick

SpecThrottle == InitThrottle /\ [][NextThrottle]_vars

(***************************************************************************)
(* SpecLive: the direct handler (refreshMode unset) with skipOnMount =     *)
(* false and a handled dimension, under fair scheduling: a batch the       *)
(* observer has gathered is handed to the callback, and a requested frame  *)
(* runs (the browser runs requestAnimationFrame callbacks on its next      *)
(* frame).  Deliveries and teardown are up to the environment.  The        *)
(* observer delivers an entry for each registered element that changed, so *)
(* a batch may hold more than one entry.                                   *)
(***************************************************************************)
LiveProps ==
  {p \in LimiterProps(BrowserEnv) :
     /\ p.refreshMode = "none"
     /\ ~p.skipOnMount
     /\ p.handleWidth \/ p.handleHeight}

InitLive ==
  /\ \E p \in LiveProps : Constructed(p, BrowserEnv)
  /\ clock = [NoClock EXCEPT !.tracking = TRUE]

\* the observer gathers one entry, or two: two entries are enough for an
\* entry to follow another in one batch
DeliverLive == Observe({b \in Batches : Len(b) <= 2})

NextLive ==
  \/ componentDidMount
  \/ componentWillUnmount
  \/ DeliverLive
  \/ NativeCallback
  \/ Frame

SpecLive ==
  /\ InitLive
  /\ [][NextLive]_vars
  /\ WF_vars(NativeCallback)
  /\ WF_vars(Frame)

(***************************************************************************)
(* Properties.                                                             *)
(***************************************************************************)
\* the sizes of the entries of a batch, in delivery order
RECURSIVE Rects(_)
Rects(b) ==
  IF b = <<>> THEN <<>>
  ELSE <<SizeOf(Head(b).width, Head(b).height)>> \o Rects(Tail(b))

RECURSIVE Keep(_, _, _)
\* the subsequence of the sizes that differ from cur in a handled dimension
Keep(sizes, p, cur) ==
  IF sizes = <<>> THEN <<>>
  ELSE (IF \/ p.handleWidth /\ Head(sizes).width # cur.width
           \/ p.handleHeight /\ Head(sizes).height # cur.height
        THEN <<Head(sizes)>> ELSE <<>>) \o Keep(Tail(sizes), p, cur)

\* every entry of the batch carries exactly the width and height of cur
AllSame(b, cur) ==
  \A i \in 1..Len(b) : b[i].width = cur.width /\ b[i].height = cur.height

Browser == ~env.ssr

\* the batch createResizeHandler is given in a step: the one the timer kept,
\* or the one the observer hands over
StepBatch == IF last'.op = "TimerFire" THEN deb.lastArgs ELSE inflight

\* a run of the handler forwarded exactly the sizes e: as many calls of the
\* updater, which then holds the last of them for the next frame
Forwarded(e) ==
  /\ last'.nfwd = Len(e)
  /\ e # <<>> => (raf'.frameId /\ raf'.lastArgs = e[Len(e)]
                    /\ win'.any /\ win'.size = e[Len(e)])

\* C1: while neither handleWidth nor handleHeight has been set, whatever the
\* observer delivered, the state is still the initial one, onResize has not
\* been called, nothing was forwarded and no frame is requested.
C1_NothingHandledNothingUpdated ==
  ~seen.handled =>
     /\ state = UndefSize
     /\ last.calls = <<>> /\ last.commits = <<>> /\ last.nfwd = 0
     /\ ~raf.frameId /\ orphans = <<>>

\* C1 witness: with both switches off the handler was given measured entries,
\* whose sizes differ from the initial state in both dimensions.
C1_Witness ==
  /\ ~seen.handled /\ Browser
  /\ last.called /\ last.measured = 1
  /\ state = UndefSize

\* C2: after componentWillUnmount no step updates the state or calls onResize.
C2_NoUpdateAfterTeardown ==
  unmounted => last.calls = <<>> /\ last.commits = <<>>

C4_IdenticalEntriesNoUpdate ==
  [][(last'.called /\ AllSame(StepBatch, state)) =>
       /\ last'.nfwd = 0
       /\ ~raf'.frameId /\ orphans' = <<>>
       /\ state' = state
       /\ last'.calls = <<>> /\ last'.commits = <<>>]_vars

\* C4 witness: with both dimensions handled and a measured state, the handler
\* processed a measured entry and did not forward it: it was equal to the
\* state.
C4_Witness ==
  /\ props.handleWidth /\ props.handleHeight /\ Browser
  /\ state.width # U /\ state.height # U
  /\ last.ran /\ last.measured = 1 /\ last.nfwd = 0

\* C5: the observer holds at most one registered node.
C5_AtMostOneRegistration ==
  Cardinality(resizeObserver.registered) <= 1

\* what the three explicit sources of the props offer
SelectorMatch ==
  IF props.querySelector = NoSel THEN Null ELSE documentQuerySelector(props.querySelector)
HasDomEl == props.targetDomEl \in Nodes
HasRefNode == props.targetRef.given /\ props.targetRef.current \in Nodes
Resolving == last.op \in {"componentDidMount", "componentDidUpdate"}

\* C6: on a mount or update the resolver returns the querySelector match when
\* there is one, whatever targetDomEl and targetRef hold; without querySelector
\* it returns targetDomEl when that is an element; without both, the node of
\* targetRef; and an element inferred from the rendered output (the component's
\* node or its parent) only when the props offer none of the three.
C6_ResolutionPriority ==
  Resolving =>
    /\ SelectorMatch # Null => last.element = SelectorMatch
    /\ (props.querySelector = NoSel /\ HasDomEl) => last.element = props.targetDomEl
    /\ (props.querySelector = NoSel /\ ~HasDomEl /\ HasRefNode) =>
          last.element = props.targetRef.current
    /\ last.element \in {SelfNode, ParentNode} =>
          (props.querySelector = NoSel /\ ~HasDomEl /\ ~HasRefNode)

\* C6 witness: all three sources offer a node, each a different one from the
\* selector's, and the selector's match was returned.
C6_Witness ==
  /\ Resolving /\ SelectorMatch = "a"
  /\ props.targetDomEl = "b" /\ HasRefNode /\ props.targetRef.current = "b"
  /\ last.element = "a" /\ observableElement = "a"

\* the strategy the priority order of the claim selects
ClaimedStrategy ==
  IF props.render THEN "renderProp"
  ELSE IF props.children.kind = "function" THEN "childFunction"
  ELSE IF props.children.kind = "element" THEN "child"
  ELSE IF props.children.kind = "array" THEN "childArray"
  ELSE "parent"

OutputsGivenState(out) ==
  \A i \in 1..Len(out) :
     out[i].kind # "false" =>
        out[i].injected /\ out[i].width = state.width /\ out[i].height = state.height

\* C7 as claimed: the rendered output is that of the one strategy the priority
\* order selects, and every output produced received the state's width and
\* height, the fallback wrapper tag included.
C7_StrategyAndSizeAlways ==
  /\ rendered.strategy = ClaimedStrategy
  /\ OutputsGivenState(rendered.out)

\* C7 amended: the rendered output is that of the one strategy the priority
\* order selects; under renderProp, childFunction, child and childArray every
\* output produced received the state's width and height, and the fallback
\* wrapper tag is rendered without them.
C7_StrategyAndSize ==
  /\ rendered.strategy = ClaimedStrategy
  /\ rendered.strategy # "parent" => OutputsGivenState(rendered.out)
  /\ rendered.strategy = "parent" =>
        (Len(rendered.out) = 1 /\ ~rendered.out[1].injected)

\* C7 witness: with a render prop and a function child both supplied and a
\* measured state, the render prop was invoked with that state.
C7_Witness ==
  /\ props.render /\ props.children.kind = "function"
  /\ state.width # U /\ state.height # U /\ state.width # state.height
  /\ rendered.strategy = "renderProp"
  /\ rendered.out = <<Given("render", state)>>

\* C8: the handler forwards the qualifying entries of a batch in delivery
\* order, so that the scheduler holds the last of them; and a frame commits at
\* most one size and calls onResize at most once, with the last size forwarded
\* since the previous frame.
C8_LastForwardedWins ==
  [][/\ (last'.ran /\ Browser) =>
          Forwarded(Keep(IF skipOnMount THEN Tail(Rects(StepBatch))
                         ELSE Rects(StepBatch), props, state))
     /\ last'.op = "Frame" =>
          /\ Len(last'.commits) <= 1 /\ Len(last'.calls) <= 1
          /\ last'.commits # <<>> => (win.any /\ last'.commits = <<win.size>>)
          /\ last'.calls # <<>> => (win.any /\ last'.calls = <<win.size>>)]_vars

\* C8 witness: a frame that followed a batch of two forwarded sizes committed
\* one size.
C8_Witness ==
  /\ last.op = "Frame" /\ last.prevFwd = 2
  /\ Len(last.commits) = 1 /\ state = last.commits[1]

\* C9: once componentWillUnmount has run, no node is registered, and a frame
\* request or a timer that is pending was requested after the teardown.
C9_TeardownCancels ==
  unmounted =>
    /\ resizeObserver.registered = {}
    /\ orphans = <<>>
    /\ raf.frameId => late.raf
    /\ deb.timerId => late.timer

\* C9 witness: teardown found a node registered, a frame requested and a timer
\* running, and left none of them.
C9_Witness ==
  /\ last.op = "componentWillUnmount" /\ last.preFrame /\ last.preTimer
  /\ observableElement # Null
  /\ resizeObserver.registered = {} /\ ~raf.frameId /\ ~deb.timerId

\* the configuration of C10
PlainConfig ==
  /\ resizeObserver.callback = "direct" /\ props.handleWidth /\ props.handleHeight
  /\ ~props.skipOnMount /\ props.children.kind = "function" /\ ~props.render
  /\ Browser

\* C10: in the plain configuration a callback with one entry (w, h) that differs
\* from the state requests a frame for (w, h); when that frame fires on the
\* mounted component, onResize (when given) is called once with (w, h), the
\* state becomes (w, h) and the function child is invoked with it.
C10_EndToEnd ==
  [][/\ (PlainConfig /\ last'.op = "NativeCallback" /\ Len(inflight) = 1
           /\ inflight[1].hasRect /\ ~AllSame(inflight, state)) =>
          /\ last'.nfwd = 1
          /\ raf'.frameId
          /\ raf'.lastArgs = SizeOf(inflight[1].width, inflight[1].height)
     /\ (PlainConfig /\ last.op = "NativeCallback" /\ last.measured = 1 /\ last.nfwd = 1
           /\ phase = "mounted" /\ last'.op = "Frame") =>
          /\ last'.calls = IF props.onResize THEN <<raf.lastArgs>> ELSE <<>>
          /\ state' = raf.lastArgs
          /\ rendered' = [strategy |-> "childFunction",
                          out |-> <<Given("children", raf.lastArgs)>>]]_vars

\* C10 witness: the entry (1, 0) was delivered alone and the frame has fired.
C10_Witness ==
  /\ PlainConfig /\ props.onResize /\ phase = "mounted"
  /\ last.op = "Frame" /\ last.prevFwd = 1
  /\ last.calls = <<SizeOf(1, 0)>> /\ state = SizeOf(1, 0)
  /\ rendered.out = <<Given("children", SizeOf(1, 0))>>

\* C12: a mount or update that resolves a node other than the observed one
\* makes one observe() call, with that node, and the node becomes the observed
\* one; a mount or update that resolves the observed node, or none, makes no
\* observe() call and leaves the observed element as it was.
C12_RegistersExactlyOnChange ==
  [][last'.op \in {"componentDidMount", "componentDidUpdate"} =>
       IF last'.element # Null /\ last'.element # observableElement
       THEN /\ last'.observeCalls = <<last'.element>>
            /\ observableElement' = last'.element
            /\ last'.element \in resizeObserver'.registered
       ELSE /\ last'.observeCalls = <<>>
            /\ observableElement' = observableElement
            /\ resizeObserver'.registered = resizeObserver.registered]_vars

\* C12 witness: an update resolved the node that was already observed, after
\* an earlier update had replaced the observed node: no call was made.
C12_Witness ==
  /\ last.op = "componentDidUpdate"
  /\ last.element # Null /\ last.element = observableElement
  /\ last.observeCalls = <<>>
  /\ Cardinality(resizeObserver.registered) = 2

\* C13: a mount or update at which no element is found calls nothing and
\* leaves the observed element and the registrations as they were; a mount or
\* update at which an element is found leaves that element registered and
\* observed, whatever the earlier ones found.
C13_NotFoundIsDeferred ==
  [][last'.op \in {"componentDidMount", "componentDidUpdate"} =>
       IF last'.element = Null
       THEN /\ last'.observeCalls = <<>>
            /\ observableElement' = observableElement
            /\ resizeObserver'.registered = resizeObserver.registered
       ELSE /\ last'.element \in resizeObserver'.registered
            /\ observableElement' = last'.element]_vars

\* C13 witness: the mount and every update before this one found no element
\* (nothing else is registered); this update found one and registered it.
C13_Witness ==
  /\ last.op = "componentDidUpdate"
  /\ last.element # Null /\ last.observeCalls = <<last.element>>
  /\ resizeObserver.registered = {last.element}

\* C14: when querySelector is set and matches no node, the resolver returns
\* what it returns for the same props without querySelector: targetDomEl, else
\* the targetRef node, else the inferred element.
C14_NoMatchFallsThrough ==
  (Resolving /\ props.querySelector # NoSel /\ SelectorMatch = Null) =>
     last.element = getElement([props EXCEPT !.querySelector = NoSel], env, targetRef)

\* C15: at a mount or update whose props offer no querySelector, no targetDomEl
\* element and no targetRef with a current node, the resolver returns what it
\* returns with an empty reference: the inferred element or none, never a node
\* that targetRef supplied on an earlier cycle.
C15_NoStaleRefNode ==
  (Resolving /\ props.querySelector = NoSel /\ ~HasDomEl /\ ~HasRefNode) =>
     last.element = getElement(props, env, Null)

\* C16: once the handler has processed an entry, this.skipOnMount is false, in
\* that state and in every later one, whatever was delivered and whatever
\* props (skipOnMount included) the updates brought.
C16_FlagClearedForGood ==
  seen.entry => ~skipOnMount

\* C16 witness: after an entry had been processed, an update brought
\* skipOnMount=true, and the flag is still false.
C16_Witness ==
  /\ last.op = "componentDidUpdate"
  /\ seen.entry /\ props.skipOnMount /\ ~skipOnMount

\* C17: a frame that flushes the coalescing step commits exactly one size,
\* which is then the state, and calls onResize, when it is given, exactly once
\* with that same size; without onResize it makes no call and still commits.
C17_FlushCallsThenCommits ==
  last.op = "Frame" =>
    /\ Len(last.commits) = 1
    /\ state = last.commits[1]
    /\ last.calls = IF props.onResize THEN last.commits ELSE <<>>

\* C18: in a non-browser context every mount and update resolves no element,
\* no node is registered or observed, the handler forwards nothing and
\* requests no frame, the state stays the initial one and onResize is not
\* called.
C18_ServerSideNoOp ==
  env.ssr =>
    /\ last.element = Null /\ last.observeCalls = <<>>
    /\ observableElement = Null /\ resizeObserver.registered = {}
    /\ last.nfwd = 0 /\ ~raf.frameId /\ orphans = <<>>
    /\ state = UndefSize /\ last.calls = <<>> /\ last.commits = <<>>

\* C18 witness: in a non-browser context, with a selector that names a node,
\* a dimension handled and no mount suppression, the handler processed a
\* measured entry, which differs from the undefined state.
C18_Witness ==
  /\ env.ssr /\ props.querySelector = "#a" /\ phase = "mounted"
  /\ props.handleWidth /\ ~props.skipOnMount /\ seen.entry
  /\ last.op = "NativeCallback" /\ last.ran /\ last.measured = 1

\* the four strategies whose output is the node to observe
OwnNodeStrategies == {"renderProp", "childFunction", "child", "childArray"}

\* C19: at a mount or update with no querySelector, no targetDomEl element and
\* no node in the instance's reference, the resolver returns the rendered node
\* when the strategy render() selected for these props is renderProp,
\* childFunction, child or childArray, and the parent of the rendered node
\* when it is the fallback wrapper tag; with nothing rendered it returns none.
C19_InferredElement ==
  (Resolving /\ props.querySelector = NoSel /\ ~HasDomEl /\ targetRef \notin Nodes) =>
     last.element = IF env.ownNode = Null THEN Null
                    ELSE IF rendered.strategy \in OwnNodeStrategies THEN env.ownNode
                    ELSE parentElement(env.ownNode)

\* C19 witness: after a cycle that observed the rendered node of a single
\* child element, an update without children resolved the parent of the
\* wrapper tag.
C19_Witness ==
  /\ last.op = "componentDidUpdate" /\ rendered.strategy = "parent"
  /\ props.querySelector = NoSel /\ ~HasDomEl /\ targetRef \notin Nodes
  /\ last.element = ParentNode /\ observableElement = ParentNode
  /\ resizeObserver.registered = {SelfNode, ParentNode}

\* size z differs from cur in a dimension the props handle
DiffersHandled(p, cur, z) ==
  \/ p.handleWidth /\ z.width # cur.width
  \/ p.handleHeight /\ z.height # cur.height

\* the state committed immediately before the i-th flush of a frame
StateBefore(i) ==
  IF i = 1 \/ last'.commits = <<>> THEN state ELSE last'.commits[i - 1]

\* C20: every size a frame commits, and every size it passes to onResize,
\* differs in a handled dimension from the state committed immediately before.
C20_UpdatesAlwaysDiffer ==
  [][last'.op = "Frame" =>
       /\ \A i \in 1..Len(last'.commits) :
             DiffersHandled(props, StateBefore(i), last'.commits[i])
       /\ \A i \in 1..Len(last'.calls) :
             DiffersHandled(props, StateBefore(i), last'.calls[i])]_vars

\* C20 witness: with only the width handled and a wrapped handler, a frame has
\* committed a second measured size, forwarded by a run of the handler that
\* the timer started.
C20_Witness ==
  /\ last.op = "Frame" /\ resizeObserver.callback = "wrapped"
  /\ props.handleWidth /\ ~props.handleHeight /\ props.onResize
  /\ last.commits = <<state>> /\ last.calls = <<state>>
  /\ state.width = 0 /\ seen.qual /\ ~deb.timerId /\ phase = "mounted"

\* C11: refreshMode = "throttle", refreshRate = 200, entries of changing
\* sizes delivered at 0, 50, 100 and 250 ms: at most two updates are committed
\* within the 250 ms window, one at the leading edge (0 ms) and one at the
\* trailing edge (200 ms) of the interval at most.
C11_ThrottledAtBoundaries ==
  clock.timed =>
    clock.log \in {<<>>, <<0>>, <<clock.wait>>, <<0, clock.wait>>}

\* C11 witness: all four entries were delivered, the window is over, and the
\* two updates were committed at 0 ms and at 200 ms; the entry of 250 ms waits
\* for the next trailing edge.
C11_Witness ==
  /\ clock.timed
  /\ clock.arrived = ArrivalTimes
  /\ clock.now = 250
  /\ clock.log = <<0, clock.wait>>
  /\ inflight = <<>>
  /\ deb.timerId /\ deb.lastArgs # <<>>
  /\ ~raf.frameId


\* the committed state carries the size of the last delivered entry in every
\* handled dimension
MatchesLastDelivered ==
  /\ props.handleWidth => state.width = clock.lastSize.width
  /\ props.handleHeight => state.height = clock.lastSize.height

\* C21: with refreshMode unset, skipOnMount = false and a handled dimension,
\* if native callbacks stop arriving and frames keep firing, then, unless the
\* component is torn down, the committed state eventually equals the size of
\* the last delivered entry in every handled dimension.
C21_LastDeliveredCommitted ==
  <>[](last.op # "observe") => <>[](phase = "unmounted" \/ MatchesLastDelivered)

=============================================================================
